---------------------------- MODULE Spec2Model ----------------------------
(***************************************************************************)
(* The Ansible module "drush" (src/drush.py): one invocation of            *)
(* run_module() takes path/command/name/value and the check-mode flag,     *)
(* runs drush up to twice through module.run_command and answers with      *)
(* exit_json/fail_json.                                                    *)
(*                                                                         *)
(* Representation of Python values.                                        *)
(*  - A str on which the code works character by character (value, out,    *)
(*    err, cmd) is a sequence of symbols; a symbol is one character, or    *)
(*    one literal word of the source ("--nocolor", a command name, a       *)
(*    variable name) that no operation ever looks inside.                  *)
(*  - command, name and the keys of the result dict are TLA+ strings.      *)
(*  - A value stored in the result dict, or decoded from JSON, is tagged:  *)
(*    <<"bool", b>>, <<"int", n>>, <<"str", s>>, <<"list", elems>>,        *)
(*    <<"dict", pairs>>. Values of different Python types are unequal.     *)
(***************************************************************************)
EXTENDS Integers, Sequences, FiniteSets, TLC

\* ------------------------------------------------------------------ bounds

\* How many invocations of the module one behaviour holds.
MaxInvocations == 2

\* ------------------------------------------------------- Python value tags

PyBool(b) == <<"bool", b>>
PyInt(n)  == <<"int", n>>
PyStr(s)  == <<"str", s>>
PyList(e) == <<"list", e>>
PyDict(p) == <<"dict", p>>

\* ------------------------------------------------------------ str helpers

Whitespace == {" ", "\n", "\t"}

\* str.rstrip(): drops every trailing whitespace character.
RECURSIVE rstrip(_)
rstrip(s) ==
    IF s = <<>> THEN s
    ELSE IF s[Len(s)] \in Whitespace THEN rstrip(SubSeq(s, 1, Len(s) - 1))
    ELSE s

RECURSIVE lstrip(_)
lstrip(s) ==
    IF s = <<>> THEN s
    ELSE IF Head(s) \in Whitespace THEN lstrip(Tail(s))
    ELSE s

\* ------------------------------------------------------------------- json

Digits == {"0", "1", "2", "3", "4", "5", "6", "7", "8", "9"}

DigitVal ==
    "0" :> 0 @@ "1" :> 1 @@ "2" :> 2 @@ "3" :> 3 @@ "4" :> 4 @@
    "5" :> 5 @@ "6" :> 6 @@ "7" :> 7 @@ "8" :> 8 @@ "9" :> 9

DigitChar == <<"0", "1", "2", "3", "4", "5", "6", "7", "8", "9">>

\* The decimal text of a natural number.
RECURSIVE IntText(_)
IntText(n) ==
    IF n < 10 THEN <<DigitChar[n + 1]>>
    ELSE Append(IntText(n \div 10), DigitChar[(n % 10) + 1])

\* json.dumps of a str: quoted, with quote, backslash and newline escaped.
RECURSIVE json_escape(_)
json_escape(s) ==
    IF s = <<>> THEN <<>>
    ELSE (CASE Head(s) = "\"" -> <<"\\", "\"">>
            [] Head(s) = "\\" -> <<"\\", "\\">>
            [] Head(s) = "\n" -> <<"\\", "n">>
            [] Head(s) = "\t" -> <<"\\", "t">>
            [] OTHER -> <<Head(s)>>) \o json_escape(Tail(s))

json_dumps(s) == <<"\"">> \o json_escape(s) \o <<"\"">>

\* The result of a parsing step: ok, the value read, the text left.
ParseFail == [ok |-> FALSE, val |-> <<"none">>, rest |-> <<>>]
ParseOk(v, r) == [ok |-> TRUE, val |-> v, rest |-> r]

RECURSIVE ParseDigits(_, _)
ParseDigits(s, acc) ==
    IF s # <<>> /\ Head(s) \in Digits
    THEN ParseDigits(Tail(s), 10 * acc + DigitVal[Head(s)])
    ELSE ParseOk(PyInt(acc), s)

\* A JSON number: digits, no leading zero.
ParseNumber(s) ==
    IF Head(s) = "0"
    THEN IF Len(s) > 1 /\ s[2] \in Digits THEN ParseFail
         ELSE ParseOk(PyInt(0), Tail(s))
    ELSE ParseDigits(s, 0)

\* The body of a JSON string, after its opening quote.
RECURSIVE ScanString(_, _)
ScanString(s, acc) ==
    IF s = <<>> THEN ParseFail
    ELSE IF Head(s) = "\"" THEN ParseOk(PyStr(acc), Tail(s))
    ELSE IF Head(s) \in {"\n", "\t"} THEN ParseFail
    ELSE IF Head(s) = "\\"
    THEN IF Len(s) < 2 THEN ParseFail
         ELSE (CASE s[2] = "\"" -> ScanString(SubSeq(s, 3, Len(s)), Append(acc, "\""))
                 [] s[2] = "\\" -> ScanString(SubSeq(s, 3, Len(s)), Append(acc, "\\"))
                 [] s[2] = "n"  -> ScanString(SubSeq(s, 3, Len(s)), Append(acc, "\n"))
                 [] s[2] = "t"  -> ScanString(SubSeq(s, 3, Len(s)), Append(acc, "\t"))
                 [] OTHER -> ParseFail)
    ELSE ScanString(Tail(s), Append(acc, Head(s)))

RECURSIVE ParseValue(_)
RECURSIVE ParseElems(_, _)
RECURSIVE ParseMembers(_, _)

\* One JSON value at the start of s (leading whitespace skipped).
ParseValue(t) ==
    LET s == lstrip(t) IN
    IF s = <<>> THEN ParseFail
    ELSE IF Head(s) \in Digits THEN ParseNumber(s)
    ELSE IF Head(s) = "\"" THEN ScanString(Tail(s), <<>>)
    ELSE IF Head(s) = "["
    THEN (LET r == lstrip(Tail(s)) IN
          IF r # <<>> /\ Head(r) = "]" THEN ParseOk(PyList(<<>>), Tail(r))
          ELSE ParseElems(r, <<>>))
    ELSE IF Head(s) = "{"
    THEN (LET r == lstrip(Tail(s)) IN
          IF r # <<>> /\ Head(r) = "}" THEN ParseOk(PyDict(<<>>), Tail(r))
          ELSE ParseMembers(r, <<>>))
    ELSE ParseFail

\* The elements of a non-empty array, up to its closing bracket.
ParseElems(s, acc) ==
    LET e == ParseValue(s) IN
    IF ~e.ok THEN ParseFail
    ELSE LET r == lstrip(e.rest) IN
         IF r = <<>> THEN ParseFail
         ELSE IF Head(r) = "]" THEN ParseOk(PyList(Append(acc, e.val)), Tail(r))
         ELSE IF Head(r) = "," THEN ParseElems(Tail(r), Append(acc, e.val))
         ELSE ParseFail

\* The members of a non-empty object, up to its closing brace.
ParseMembers(t, acc) ==
    LET s == lstrip(t) IN
    IF s = <<>> \/ Head(s) # "\"" THEN ParseFail
    ELSE LET k == ScanString(Tail(s), <<>>) IN
         IF ~k.ok THEN ParseFail
         ELSE LET c == lstrip(k.rest) IN
              IF c = <<>> \/ Head(c) # ":" THEN ParseFail
              ELSE LET e == ParseValue(Tail(c)) IN
                   IF ~e.ok THEN ParseFail
                   ELSE LET r == lstrip(e.rest) IN
                        IF r = <<>> THEN ParseFail
                        ELSE IF Head(r) = "}"
                        THEN ParseOk(PyDict(Append(acc, <<k.val[2], e.val>>)), Tail(r))
                        ELSE IF Head(r) = ","
                        THEN ParseMembers(Tail(r), Append(acc, <<k.val[2], e.val>>))
                        ELSE ParseFail

\* json.loads: one value, then nothing but whitespace; ok = FALSE is the
\* ValueError json.loads raises.
json_loads(s) ==
    LET p == ParseValue(s) IN
    IF p.ok /\ lstrip(p.rest) = <<>> THEN p ELSE ParseFail


\* ------------------------------------------------- the request's alphabet

\* command: a get, a set, a command outside both sets of the source that
\* takes --format=json, one that is read-only, and one that hates --format.
Commands == {"variable-get", "variable-set", "core-status", "cc", "en"}

\* name: absent, an ordinary name, and two names that are also fields of
\* the response.
Names == {"", "page_cache", "rc", "changed"}

VarNames == Names \ {""}

\* value: absent, a number-like text, and one ending in whitespace.
Values == {<<>>, <<"1">>, <<"1", " ">>}

\* ------------------------------------------------------ drush (the tool)

Unset == <<"unset">>

\* What the site may hold for a variable before the first invocation: nothing,
\* or a number Drupal itself has stored (strings come from variable-set).
InitStored == {Unset, PyInt(1)}

Flags == {"--nocolor", "-y", "--format=json", "--format=string", "--exact"}

\* shlex.split as run_command applies it to a str command: split at
\* whitespace, single quotes keep what they enclose in one word.
RECURSIVE ShlexScan(_, _, _, _, _)
ShlexScan(s, cur, inWord, inQuote, acc) ==
    IF s = <<>> THEN (IF inWord THEN Append(acc, cur) ELSE acc)
    ELSE IF inQuote
    THEN IF Head(s) = "'" THEN ShlexScan(Tail(s), cur, TRUE, FALSE, acc)
         ELSE ShlexScan(Tail(s), Append(cur, Head(s)), TRUE, TRUE, acc)
    ELSE IF Head(s) = "'" THEN ShlexScan(Tail(s), cur, TRUE, TRUE, acc)
    ELSE IF Head(s) \in Whitespace
    THEN ShlexScan(Tail(s), <<>>, FALSE, FALSE,
                   IF inWord THEN Append(acc, cur) ELSE acc)
    ELSE ShlexScan(Tail(s), Append(cur, Head(s)), TRUE, FALSE, acc)

ShlexSplit(s) == ShlexScan(s, <<>>, FALSE, FALSE, <<>>)

IsFlag(word) == Len(word) = 1 /\ word[1] \in Flags

\* The words of argv after the tool and the sub-command that are no flags.
Positional(argv) == SelectSeq(SubSeq(argv, 3, Len(argv)), LAMBDA w : ~IsFlag(w))

HasFlag(argv, f) == \E i \in 1..Len(argv) : argv[i] = <<f>>

\* The sub-command of an argv, "" when there is none.
SubCommand(argv) ==
    IF Len(argv) >= 2 /\ Len(argv[2]) = 1 THEN argv[2][1] ELSE ""

\* drush --format=string / --format=json of a stored value.
StringText(v) == IF v[1] = "int" THEN IntText(v[2]) ELSE v[2]
JsonText(v)   == IF v[1] = "int" THEN IntText(v[2]) ELSE json_dumps(v[2])

ToolAnswer(r, o, e, st) == [rc |-> r, out |-> o, err |-> e, store |-> st]

\* What drush prints on success for a command that is neither a get nor a
\* set: nothing, a JSON document, or text that is no JSON.
GenericOutputs ==
    { <<>>,
      <<"{", "\"", "drupal-version", "\"", ":", "\"", "7", "\"", "}", "\n">>,
      <<"Done.", "\n">> }

\* One run of drush on argv against the variables st: fault is a failure of
\* the tool itself, o the output chosen for a generic command.
ToolRun(argv, st, fault, o) ==
    LET sub == SubCommand(argv)
        pos == Positional(argv)
        nm  == IF pos # <<>> /\ Len(pos[1]) = 1 THEN pos[1][1] ELSE ""
    IN
    IF fault
    THEN ToolAnswer(1, <<>>, <<"Drush command terminated abnormally.">>, st)
    ELSE IF sub \in {"vget", "variable-get"}
    THEN IF nm \notin DOMAIN st \/ st[nm] = Unset
         THEN ToolAnswer(1, <<>>, <<"No matching variable found.">>, st)
         ELSE ToolAnswer(0,
                         (IF HasFlag(argv, "--format=string")
                          THEN StringText(st[nm]) ELSE JsonText(st[nm])) \o <<"\n">>,
                         <<>>, st)
    ELSE IF sub = "variable-set"
    THEN IF nm \notin DOMAIN st \/ Len(pos) < 2 \/ ~json_loads(pos[2]).ok
         THEN ToolAnswer(1, <<>>, <<"Invalid arguments.">>, st)
         ELSE ToolAnswer(0, <<>>, <<nm, " ", "was set.">>,
                         [st EXCEPT ![nm] = json_loads(pos[2]).val])
    ELSE ToolAnswer(0, o, <<>>, st)

\* ------------------------------------------------------------ run_module

VARIABLES
    pc,             \* where run_module stands
    check_mode,     \* module.check_mode
    params,         \* module.params: command, name, value
    command,        \* the local command (variable-set becomes variable-get)
    result,         \* the result dict
    original_value, \* the local original_value, <<"unbound">> until assigned
    rc, out, err,   \* the locals run_command assigns, <<"unbound">> until then
    cmd,            \* the local cmd
    outcome,        \* how the invocation ended: exit_json, fail_json, exception
    store,          \* drush: the variables of the site
    spawned,        \* history: the processes this invocation has run
    stored_before,  \* history: what drush held for name when it began
    prev,           \* history: the invocation before this one
    invocations     \* history: how many invocations have begun

vars == <<pc, check_mode, params, command, result, original_value, rc, out,
          err, cmd, outcome, store, spawned, stored_before, prev, invocations>>

Unbound == <<"unbound">>

\* module.get_bin_path('drush', required=True), when drush is in PATH.
drush == "/usr/bin/drush"

hates_format == {"updb", "updatedb", "cc", "cache-clear"}

safe_commands ==
    {"config-get", "core-requirements", "core-status", "drupal-directory",
     "pm-info", "pm-list", "pm-projectinfo", "search-status", "state-get",
     "status", "user-information", "variable-get", "watchdog-list",
     "watchdog-show"}

\* result[k] = v
Put(d, k, v) == [x \in (DOMAIN d) \cup {k} |-> IF x = k THEN v ELSE d[x]]

NoOutcome == [kind |-> "none", msg |-> <<>>]
NoPrev == <<"none">>

\* The seed of the result dict.
SeedResult ==
    [k \in {"changed", "rc", "stderr", "stdout"} |->
        CASE k = "changed" -> PyBool(FALSE)
          [] k = "rc"      -> PyInt(0)
          [] OTHER         -> PyStr(<<>>)]

MissingParameterNameOnly(c, n, v) ==
    IF c \in {"variable-get", "variable-set"} /\ n = ""
    THEN <<"Variable name required">>
    ELSE <<>>

\* The parameter check: the message of the fail_json it ends in, <<>> when
\* the parameters pass.
MissingParameter(c, n, v) ==
    IF c = "variable-get" /\ n = "" THEN <<"Variable name required">>
    ELSE IF c = "variable-set" /\ n = "" THEN <<"Variable name required">>
    ELSE IF c = "variable-set" /\ v = <<>> THEN <<"Variable value required">>
    ELSE <<>>

\* The command line of the get that saves the original value.
BaselineCmd(n) ==
    <<drush, " ", "vget", " ", "--format=string", " ", "--exact", " ", n>>

\* cmd_extra, lines 143-153
cmd_extra(c, n, v) ==
    (IF n # "" THEN <<" ", n>> ELSE <<>>)
    \o (IF c = "variable-get" \/ c = "variable-set" THEN <<" ", "--exact">> ELSE <<>>)
    \o (IF c = "variable-set" THEN <<" ", "'">> \o json_dumps(v) \o <<"'">>
        ELSE IF v # <<>> THEN <<" ">> \o v
        ELSE <<>>)

\* format, lines 155-159
format(c) == IF c \notin hates_format THEN <<"--format=json">> ELSE <<>>

BuildCmdFormatFirst(c, n, v) ==
    <<drush, " ", c, " ">> \o format(c) \o <<" ", "--nocolor", " ", "-y">>
    \o cmd_extra(c, n, v)

\* cmd = "%s %s --nocolor -y %s%s" % (drush, command, format, cmd_extra)
BuildCmd(c, n, v) ==
    <<drush, " ", c, " ", "--nocolor", " ", "-y", " ">>
    \o format(c) \o cmd_extra(c, n, v)

ShouldRunAlways(check, c) == TRUE

\* In check mode drush runs only when the command is safe.
ShouldRun(check, c) == ~check \/ c \in safe_commands

\* The command of check mode for a variable-set.
CheckModeCommand(c) == "variable-get"

PayloadKeyGeneric(c, n, o) == IF o # <<>> THEN "drush" ELSE ""

\* The key the decoded output is stored under: "" for none.
PayloadKey(c, n, o) ==
    IF c = "variable-get" THEN n
    ELSE IF o # <<>> THEN "drush"
    ELSE ""

\* Whether a run of a command that is not safe has changed anything.
DetermineChanged(c, orig, v) ==
    IF c = "variable-set" THEN orig # PyStr(v) ELSE TRUE

ExitCodeFailsAboveOne(r) == r[2] > 1

\* Whether the invocation fails on the exit code.
ExitCodeFails(r) == r # PyInt(0)

Init ==
    /\ pc = "idle"
    /\ check_mode = FALSE
    /\ params = [command |-> "", name |-> "", value |-> <<>>]
    /\ command = ""
    /\ result = SeedResult
    /\ original_value = Unbound
    /\ rc = Unbound /\ out = Unbound /\ err = Unbound
    /\ cmd = <<>>
    /\ outcome = NoOutcome
    /\ store \in [VarNames -> InitStored]
    /\ spawned = <<>>
    /\ stored_before = Unset
    /\ prev = NoPrev
    /\ invocations = 0

\* Lines 83-113: the module is invoked; without drush in PATH get_bin_path
\* fails the invocation.
Invoke(check, c, n, v, found) ==
    /\ pc = "idle"
    /\ invocations < MaxInvocations
    /\ invocations' = invocations + 1
    /\ check_mode' = check
    /\ params' = [command |-> c, name |-> n, value |-> v]
    /\ command' = c
    /\ result' = SeedResult
    /\ stored_before' = IF n \in DOMAIN store THEN store[n] ELSE Unset
    /\ IF found
       THEN pc' = "check_params" /\ outcome' = NoOutcome
       ELSE /\ pc' = "done"
            /\ outcome' = [kind |-> "fail_json",
                           msg |-> <<"Failed to find required executable">>]
    /\ UNCHANGED <<original_value, rc, out, err, cmd, store, spawned, prev>>

\* Lines 115-123: parameter checking for the known commands.
CheckParams ==
    /\ pc = "check_params"
    /\ LET m == MissingParameter(params.command, params.name, params.value) IN
       IF m # <<>>
       THEN pc' = "done" /\ outcome' = [kind |-> "fail_json", msg |-> m]
       ELSE pc' = "prepare" /\ outcome' = outcome
    /\ UNCHANGED <<check_mode, params, command, result, original_value, rc, out,
                   err, cmd, store, spawned, stored_before, prev, invocations>>

\* Lines 126-128: in check mode a variable-set becomes a variable-get.
Substitute ==
    /\ pc = "prepare"
    /\ command = "variable-set" /\ check_mode
    /\ command' = CheckModeCommand(command)
    /\ pc' = "construct"
    /\ UNCHANGED <<check_mode, params, result, original_value, rc, out, err,
                   cmd, outcome, store, spawned, stored_before, prev, invocations>>

\* Lines 129-138: otherwise a variable-set first saves the original value.
SaveOriginal(fault) ==
    /\ pc = "prepare"
    /\ command = "variable-set" /\ ~check_mode
    /\ LET c == BaselineCmd(params.name)
           a == ToolRun(ShlexSplit(c), store, fault, <<>>)
           o == IF a.rc = 0 THEN PyStr(rstrip(a.out)) ELSE PyStr(<<>>)
       IN /\ cmd' = c
          /\ rc' = PyInt(a.rc) /\ out' = PyStr(a.out) /\ err' = PyStr(a.err)
          /\ store' = a.store
          /\ spawned' = Append(spawned, [kind |-> "baseline", cmd |-> c,
                                         rc |-> a.rc, out |-> a.out, err |-> a.err])
          /\ original_value' = o
          /\ result' = Put(result, "original_value", o)
    /\ pc' = "construct"
    /\ UNCHANGED <<check_mode, params, command, outcome, stored_before, prev,
                   invocations>>

\* Line 126, the other commands.
NoPreparation ==
    /\ pc = "prepare"
    /\ command # "variable-set"
    /\ pc' = "construct"
    /\ UNCHANGED <<check_mode, params, command, result, original_value, rc, out,
                   err, cmd, outcome, store, spawned, stored_before, prev,
                   invocations>>

\* Lines 140-164: the command line.
Construct ==
    /\ pc = "construct"
    /\ cmd' = BuildCmd(command, params.name, params.value)
    /\ result' = Put(result, "cmd", PyStr(cmd'))
    /\ pc' = "run"
    /\ UNCHANGED <<check_mode, params, command, original_value, rc, out, err,
                   outcome, store, spawned, stored_before, prev, invocations>>

\* The result dict after lines 167-192, given drush's answer a and the
\* decoded output v.
Interpret(a, v) ==
    LET r1 == Put(Put(Put(result, "rc", PyInt(a.rc)), "stderr", PyStr(a.err)),
                  "stdout", PyStr(a.out))
        k  == PayloadKey(command, params.name, a.out)
        r2 == IF a.rc = 0 /\ k # "" THEN Put(r1, k, v) ELSE r1
        r3 == IF a.rc = 0 /\ command = "variable-get" /\ check_mode
                 /\ params.command = "variable-set"
              THEN Put(r2, "changed", PyBool(v # PyStr(params.value)))
              ELSE r2
    IN IF command \notin safe_commands
       THEN Put(r3, "changed",
                PyBool(DetermineChanged(command, original_value, params.value)))
       ELSE r3

\* Lines 165-192: drush runs; its output is decoded and interpreted. A
\* standard output that is no JSON ends the invocation in json.loads's
\* ValueError.
RunDrush(fault, o) ==
    /\ pc = "run"
    /\ ShouldRun(check_mode, command)
    /\ LET a == ToolRun(ShlexSplit(cmd), store, fault, o)
           p == IF a.out = <<>> THEN ParseOk(PyList(<<>>), <<>>)
                ELSE json_loads(a.out)
       IN /\ rc' = PyInt(a.rc) /\ out' = PyStr(a.out) /\ err' = PyStr(a.err)
          /\ store' = a.store
          /\ spawned' = Append(spawned, [kind |-> "main", cmd |-> cmd,
                                         rc |-> a.rc, out |-> a.out, err |-> a.err])
          /\ IF a.rc = 0 /\ ~p.ok
             THEN /\ result' = Put(Put(Put(result, "rc", PyInt(a.rc)),
                                       "stderr", PyStr(a.err)),
                                   "stdout", PyStr(a.out))
                  /\ outcome' = [kind |-> "exception", msg |-> <<"ValueError">>]
                  /\ pc' = "done"
             ELSE /\ result' = Interpret(a, p.val)
                  /\ outcome' = outcome
                  /\ pc' = "finish"
    /\ UNCHANGED <<check_mode, params, command, original_value, cmd,
                   stored_before, prev, invocations>>

\* Line 165, its other branch: in check mode an unsafe command is not run.
SkipDrush ==
    /\ pc = "run"
    /\ ~ShouldRun(check_mode, command)
    /\ pc' = "finish"
    /\ UNCHANGED <<check_mode, params, command, result, original_value, rc, out,
                   err, cmd, outcome, store, spawned, stored_before, prev,
                   invocations>>

\* Lines 197-208: the answer. Reading rc when no run_command has assigned it
\* raises UnboundLocalError.
Finish ==
    /\ pc = "finish"
    /\ outcome' =
         IF rc = Unbound
         THEN [kind |-> "exception", msg |-> <<"UnboundLocalError">>]
         ELSE IF ExitCodeFails(rc)
         THEN [kind |-> "fail_json", msg |-> err[2]]
         ELSE [kind |-> "exit_json", msg |-> <<>>]
    /\ pc' = "done"
    /\ UNCHANGED <<check_mode, params, command, result, original_value, rc, out,
                   err, cmd, store, spawned, stored_before, prev, invocations>>

\* The invocation is over; the next one starts from nothing but the site.
NextInvocation ==
    /\ pc = "done"
    /\ invocations < MaxInvocations
    /\ prev' = IF outcome.kind = "exit_json" /\ ~check_mode
                  /\ params.command = "variable-set"
               THEN <<"set", params.name, params.value>>
               ELSE NoPrev
    /\ pc' = "idle"
    /\ check_mode' = FALSE
    /\ params' = [command |-> "", name |-> "", value |-> <<>>]
    /\ command' = ""
    /\ result' = SeedResult
    /\ original_value' = Unbound
    /\ rc' = Unbound /\ out' = Unbound /\ err' = Unbound
    /\ cmd' = <<>>
    /\ outcome' = NoOutcome
    /\ spawned' = <<>>
    /\ stored_before' = Unset
    /\ UNCHANGED <<store, invocations>>

Next ==
    \/ \E check \in BOOLEAN, c \in Commands, n \in Names, v \in Values,
          found \in BOOLEAN : Invoke(check, c, n, v, found)
    \/ CheckParams
    \/ Substitute
    \/ \E fault \in BOOLEAN : SaveOriginal(fault)
    \/ NoPreparation
    \/ Construct
    \/ \E fault \in BOOLEAN, o \in GenericOutputs : RunDrush(fault, o)
    \/ SkipDrush
    \/ Finish
    \/ NextInvocation

Spec == Init /\ [][Next]_vars

\* ------------------------------------------------------------ properties

\* The invocation ended because drush is not in PATH.
DrushMissing ==
    outcome.kind = "fail_json"
    /\ outcome.msg = <<"Failed to find required executable">>

\* The primary command (line 166) has run; it is the last process.
MainRan == spawned # <<>> /\ spawned[Len(spawned)].kind = "main"
Main == spawned[Len(spawned)]

BaselineRan == spawned # <<>> /\ spawned[1].kind = "baseline"

\* drush itself broke down in one of this invocation's runs.
ToolFaulted ==
    \E i \in 1..Len(spawned) :
        spawned[i].err = <<"Drush command terminated abnormally.">>

\* The request misses a parameter its command needs.
MissingInRequest ==
    \/ params.command = "variable-get" /\ params.name = ""
    \/ params.command = "variable-set"
       /\ (params.name = "" \/ params.value = <<>>)

\* The decoded payload of the primary command's standard output.
MainPayload ==
    IF Main.out = <<>> THEN PyList(<<>>) ELSE json_loads(Main.out).val

\* C1: in check mode a command that is neither in the read-only allow-list
\* nor variable-set spawns no process and the invocation ends in a success
\* outcome with changed = false and rc = 0.
C1_SimulateUnsafeSucceeds ==
    (pc = "done" /\ check_mode /\ ~DrushMissing
     /\ params.command \notin safe_commands
     /\ params.command # "variable-set")
    => /\ spawned = <<>>
       /\ outcome.kind = "exit_json"
       /\ result["changed"] = PyBool(FALSE)
       /\ result["rc"] = PyInt(0)

\* C2: in check mode every process the module spawns runs a sub-command of
\* the read-only allow-list; a variable-set spawns only the variable-get
\* that replaces it, and never the get that saves the original value.
C2_SimulateSpawnsOnlySafe ==
    check_mode =>
        \A i \in 1..Len(spawned) :
            /\ SubCommand(ShlexSplit(spawned[i].cmd)) \in
                 {"config-get", "core-requirements", "core-status",
                  "drupal-directory", "pm-info", "pm-list", "pm-projectinfo",
                  "search-status", "state-get", "status", "user-information",
                  "variable-get", "watchdog-list", "watchdog-show"}
            /\ spawned[i].kind = "main"
            /\ params.command = "variable-set"
               => SubCommand(ShlexSplit(spawned[i].cmd)) = "variable-get"

C2_Witness ==
    /\ pc = "done" /\ check_mode /\ params.command = "variable-set"
    /\ Len(spawned) = 1
    /\ SubCommand(ShlexSplit(spawned[1].cmd)) = "variable-get"

\* C3: in check mode, for a variable-set (of a name that is no field of the
\* response) whose get exits 0, changed is
\* (the value the site holds # the requested value), a stored number being
\* the requested value when its text is the requested text.
C3_SimulateSetPredictsChange ==
    (pc = "done" /\ check_mode /\ params.command = "variable-set"
     /\ params.name = "page_cache"
     /\ MainRan /\ Main.rc = 0 /\ outcome.kind = "exit_json")
    => result["changed"] = PyBool(StringText(store[params.name]) # params.value)

\* C4: in check mode, a variable-set on a variable the site does not hold
\* (the get exits nonzero) does not fail: the invocation answers with an
\* outcome that predicts a change.
C4_SimulateSetOfUnsetVariable ==
    (pc = "done" /\ check_mode /\ params.command = "variable-set"
     /\ stored_before = Unset /\ MainRan /\ Main.rc # 0 /\ ~ToolFaulted)
    => /\ outcome.kind = "exit_json"
       /\ result["changed"] = PyBool(TRUE)

\* C5: outside check mode, with a drush that works and stores what it is
\* given, a successful variable-set reports changed = true when the site held
\* another value, and a second successful variable-set of the same name and
\* value right after it reports changed = false.
C5_SetIsIdempotent ==
    (pc = "done" /\ ~check_mode /\ params.command = "variable-set"
     /\ outcome.kind = "exit_json" /\ ~ToolFaulted)
    => /\ (stored_before = Unset \/ StringText(stored_before) # params.value)
          => result["changed"] = PyBool(TRUE)
       /\ prev = <<"set", params.name, params.value>>
          => result["changed"] = PyBool(FALSE)

\* C6: a variable-get without a name, or a variable-set without a name or
\* without a value, fails with a missing-parameter error in either mode, and
\* no process has been spawned.
C6_MissingParameterBeforeSpawn ==
    (pc # "idle" /\ MissingInRequest)
    => /\ spawned = <<>>
       /\ pc \in {"check_params", "done"}
       /\ pc = "done" =>
            /\ outcome.kind = "fail_json"
            /\ ~DrushMissing =>
                 outcome.msg \in {<<"Variable name required">>,
                                  <<"Variable value required">>}

C6_Witness ==
    /\ pc = "done" /\ params.command = "variable-set"
    /\ params.name # "" /\ params.value = <<>>
    /\ outcome = [kind |-> "fail_json", msg |-> <<"Variable value required">>]
    /\ spawned = <<>>

\* C7: a primary command that exits nonzero ends the invocation in a failure
\* that carries its standard error, never in success; a nonzero exit of the
\* get that saves the original value fails nothing: the set runs after it and
\* its exit code decides.
C7_OnlyPrimaryExitCodeIsFatal ==
    pc = "done" =>
        /\ (MainRan /\ Main.rc # 0)
           => outcome = [kind |-> "fail_json", msg |-> Main.err]
        /\ (BaselineRan /\ spawned[1].rc # 0)
           => /\ MainRan
              /\ SubCommand(ShlexSplit(Main.cmd)) = "variable-set"
              /\ (outcome.kind = "fail_json") <=> (Main.rc # 0)
              /\ (Main.rc = 0 /\ (Main.out = <<>> \/ json_loads(Main.out).ok))
                 => outcome.kind = "exit_json"

C7_Witness ==
    /\ pc = "done" /\ BaselineRan /\ spawned[1].rc # 0
    /\ MainRan /\ Main.rc = 0
    /\ outcome.kind = "exit_json"

\* The words of the command line as C8 orders them: the format flag before
\* (formatFirst) or after the no-color and non-interactive flags.
ExpectedArgv(formatFirst) ==
    LET fmt == IF command \notin {"updb", "updatedb", "cc", "cache-clear"}
               THEN << <<"--format=json">> >> ELSE <<>>
        fixed == << <<"--nocolor">>, <<"-y">> >>
    IN << <<drush>>, <<command>> >>
       \o (IF formatFirst THEN fmt \o fixed ELSE fixed \o fmt)
       \o (IF params.name # "" THEN << <<params.name>> >> ELSE <<>>)
       \o (IF command \in {"variable-get", "variable-set"}
           THEN << <<"--exact">> >> ELSE <<>>)
       \o (IF command = "variable-set" THEN << json_dumps(params.value) >>
           ELSE ShlexSplit(params.value))

\* C8 as stated: the words of the command line are the tool and the
\* sub-command, then --format=json unless the command is updb, updatedb, cc
\* or cache-clear, then --nocolor -y, then the name, then --exact for a get
\* or a set, then the value (JSON-encoded for a set).
C8_FormatFlagFirst ==
    pc = "run" =>
        /\ ShlexSplit(cmd) = ExpectedArgv(TRUE)
        /\ result["cmd"] = PyStr(cmd)

\* C8 amended: the same words, with --nocolor -y before --format=json.
C8_CommandLineOrder ==
    pc = "run" =>
        /\ ShlexSplit(cmd) = ExpectedArgv(FALSE)
        /\ result["cmd"] = PyStr(cmd)

C8_Witness ==
    /\ pc = "run" /\ command = "variable-set" /\ ~check_mode
    /\ params.value = <<"1", " ">>
    /\ ShlexSplit(cmd)[3] = <<"--nocolor">>
    /\ ShlexSplit(cmd)[5] = <<"--format=json">>

\* The keys the response holds besides the payload.
FixedKeys ==
    {"changed", "rc", "stderr", "stdout", "cmd"}
    \cup (IF BaselineRan THEN {"original_value"} ELSE {})

\* C9 as stated: after a primary command that exited 0 the response holds
\* the decoded output under the name when the request's command was
\* variable-get and under "drush" otherwise, the empty list for no output.
C9_PayloadKeyedByRequest ==
    (pc = "done" /\ outcome.kind = "exit_json" /\ MainRan /\ Main.rc = 0)
    => LET k == IF params.command = "variable-get" THEN params.name ELSE "drush"
       IN /\ DOMAIN result = FixedKeys \cup {k}
          /\ result[k] = MainPayload

\* C9 amended: the key is the name when the command that ran is variable-get
\* (a variable-get, or a variable-set in check mode) and holds the decoded
\* output, the empty list for no output; otherwise it is "drush", present
\* only when there is output. For a variable-set in check mode named
\* "changed" the key holds the predicted change instead.
C9_PayloadKeyedByCommandRun ==
    (pc = "done" /\ outcome.kind = "exit_json" /\ MainRan /\ Main.rc = 0)
    => IF command = "variable-get"
       THEN /\ DOMAIN result = FixedKeys \cup {params.name}
            /\ IF params.command = "variable-set" /\ params.name = "changed"
               THEN result["changed"] = PyBool(MainPayload # PyStr(params.value))
               ELSE result[params.name] = MainPayload
       ELSE IF Main.out = <<>>
       THEN DOMAIN result = FixedKeys
       ELSE /\ DOMAIN result = FixedKeys \cup {"drush"}
            /\ result["drush"] = MainPayload

C9_Witness ==
    /\ pc = "done" /\ outcome.kind = "exit_json" /\ MainRan /\ Main.rc = 0
    /\ check_mode /\ params.command = "variable-set"
    /\ params.name = "page_cache"
    /\ "drush" \notin DOMAIN result
    /\ result["page_cache"] = PyStr(<<"1">>)

\* C10: whatever the name, the fixed fields of the response keep their
\* meaning: rc, stdout and stderr are the primary command's, cmd is the
\* command line, and changed is false for a read-only command.
C10_FixedFieldsKeepMeaning ==
    (pc = "done" /\ outcome.kind \in {"exit_json", "fail_json"} /\ MainRan)
    => /\ result["rc"] = PyInt(Main.rc)
       /\ result["stdout"] = PyStr(Main.out)
       /\ result["stderr"] = PyStr(Main.err)
       /\ result["cmd"] = PyStr(Main.cmd)
       /\ params.command \in safe_commands => result["changed"] = PyBool(FALSE)

=============================================================================
